---- MODULE Spec2Model ----
(***************************************************************************)
(* AirFlowCalculator (airflowcalculator.py): a log of (timestamp, CO ppm)  *)
(* pairs, add_measurement, and calculate_airflow, which fits an            *)
(* exponential decay to the latest window and derives ACH / airflow /      *)
(* confidence.                                                             *)
(*                                                                         *)
(* Number representation (Python floats are modelled by scaled integers):  *)
(*   lambda_per_sec   in 1e-3 / s                                          *)
(*   ACH              in 1e-3 air changes / h                              *)
(*   airflow_m3h      in 1e-3 m3/h                                         *)
(*   airflow_CFM      in 1e-6 ft3/min  (0.588 = 588 / 1000)                *)
(*   confidence       in 1e-2 (the code rounds to 2 decimals)              *)
(*   sigmoid argument in halves (INDOOR_VENT_SPEED is 0.5)                 *)
(* Floating-point rounding of the products is not modelled.                *)
(***************************************************************************)
EXTENDS Integers, Sequences, FiniteSets, TLC

VARIABLES
    room_volume,     \* self.room_volume
    CO_history,      \* self.CO_history: sequence of <<timestamp, CO_ppm>>
    pc,              \* position of the calculate_airflow caller
    recent_data,     \* local recent_data of the current / last call
    params,          \* local params of the current / last call: <<lambda_per_sec>>
                     \* once curve_fit has returned, <<>> before (C0_fit is only
                     \* printed and is left out)
    result           \* value returned by the last completed call

vars == <<room_volume, CO_history, pc, recent_data, params, result>>

(***************************************************************************)
(* Bounds of the model                                                     *)
(***************************************************************************)
MaxLog == 5          \* log length reached by Spec
MaxConcLog == 3      \* log length reached by SpecConc
SeedLen == 9         \* length of the preloaded logs of SpecLong
MaxLongLog == 11     \* log length reached by SpecLong
MaxLambda == 2       \* fitted rates range over -MaxLambda..MaxLambda

\* Arguments add_measurement is called with: in-order and out-of-order
\* timestamps, falling, equal and rising concentrations.
Measurements == {<<0, 2>>, <<1, 1>>, <<1, 2>>, <<0, 1>>}

\* Arguments the constructor is called with (48 is the demo's room).
Volumes == {0, 48}

(***************************************************************************)
(* Program constants                                                       *)
(***************************************************************************)
FURNITURE == 3
NUM_FANS == 2
RESIDENTIAL_CFM == 15
NUM_FURNITURE == 6
INDOOR_VENT_SPEED_x2 == 1      \* 0.5, in halves
PEOPLE == 4
WINDOW == 10                   \* CO_history[-10:]
MIN_SAMPLES == 2               \* len(self.CO_history) < 2
HIGH_SAMPLES == 5              \* len(recent_data) >= 5
LambdaSeed == 1                \* p0 = [CO_vals[0], 0.001], in 1e-3 / s
SEC_PER_HOUR == 3600           \* ACH = lambda_per_sec * 3600
CFM_PER_M3H_x1000 == 588       \* airflow_CFM = airflow_m3h * 0.588
BASE_COUNT == 50
COUNT_STEP == 25

(***************************************************************************)
(* Values                                                                  *)
(***************************************************************************)
None == [kind |-> "None"]
Unset == [kind |-> "unset"]     \* no call has returned yet

Min(a, b) == IF a < b THEN a ELSE b
Max(a, b) == IF a > b THEN a ELSE b

(***************************************************************************)
(* Python helpers                                                          *)
(***************************************************************************)
\* Variant: seq[:n], the oldest n entries instead of the latest.
SliceFirst(seq, n) == SubSeq(seq, 1, Min(Len(seq), n))

\* seq[-n:] for n > 0: the start index len - n is clamped to 0.
SliceLast(seq, n) ==
    LET start == Max(Len(seq) - n, 0)
    IN  SubSeq(seq, start + 1, Len(seq))

\* times = [t for t, _ in recent_data]; CO_vals = [co for _, co in recent_data]
times(w) == [i \in 1..Len(w) |-> w[i][1]]
CO_vals(w) == [i \in 1..Len(w) |-> w[i][2]]

\* if CO_vals[0] <= CO_vals[-1]
NotDecaying(w) == CO_vals(w)[1] <= CO_vals(w)[Len(w)]

(***************************************************************************)
(* curve_fit(decay, times, CO_vals, p0=[CO_vals[0], 0.001])                *)
(* scipy's optimizer is outside the repository. Its outcome is a choice    *)
(* among the outcomes least squares can produce on the window:             *)
(*  - it may raise (RuntimeError when no optimum is found);                *)
(*  - all timestamps equal: decay() does not depend on lambd, the rate     *)
(*    stays at its seed;                                                   *)
(*  - two samples, distinct timestamps, positive falling concentrations:   *)
(*    the optimum interpolates both points, lambd =                        *)
(*    ln(c0 / c1) / (t1 - t0), whose sign is the sign of t1 - t0;          *)
(*  - otherwise any rate of the bounded range.                             *)
(***************************************************************************)
Lambdas == (-MaxLambda)..MaxLambda

Raised == [ok |-> FALSE]
Fitted(l) == [ok |-> TRUE, lambd |-> l]

curve_fit(w) ==
    LET t == times(w)
        c == CO_vals(w)
        n == Len(w)
        rates ==
            IF \A i \in 1..n : t[i] = t[1] THEN {LambdaSeed}
            ELSE IF n = 2 /\ c[1] > c[2] /\ c[2] > 0
                 THEN IF t[2] > t[1] THEN {l \in Lambdas : l > 0}
                                     ELSE {l \in Lambdas : l < 0}
            ELSE Lambdas
    IN  {Raised} \cup {Fitted(l) : l \in rates}

(***************************************************************************)
(* Confidence                                                              *)
(***************************************************************************)
ExpScale == 1000        \* fixed point: 1.0
ExpCap == 1000000       \* saturation of e ** x for large x
SqrtCap == 40000        \* largest value squared without overflow

\* e ** (-k / 2) and e ** (k / 2) for k >= 0 in fixed point, by squaring,
\* with e ** -0.5 = 0.607 and e ** 0.5 = 1.649.
RECURSIVE ExpDown(_)
ExpDown(k) ==
    IF k = 0 THEN ExpScale
    ELSE LET h == ExpDown(k \div 2)
             sq == (h * h) \div ExpScale
         IN  IF k % 2 = 0 THEN sq ELSE (sq * 607) \div 1000

RECURSIVE ExpUp(_)
ExpUp(k) ==
    IF k = 0 THEN ExpScale
    ELSE LET h == Min(ExpUp(k \div 2), SqrtCap)
             sq == Min(ExpCap, (h * h) \div ExpScale)
         IN  IF k % 2 = 0 THEN sq ELSE Min(ExpCap, (sq * 1649) \div 1000)

\* math.e ** (k / 2)
PowE(k) == IF k >= 0 THEN ExpUp(k) ELSE ExpDown(-k)

\* def sigmoid(x): return 1 / (1 + (math.e ** -x)); x in halves, the value
\* in fixed point.
sigmoid(x2) == (ExpScale * ExpScale) \div (ExpScale + PowE(-x2))

\* round(v, 2) of a fixed-point value, in hundredths.
round2(v) == (v * 100 + ExpScale \div 2) \div ExpScale

\* Variant: the raw score is returned without the sigmoid normalisation.
quant_confidence_raw(confidence, num_furniture, indoor_vent_speed_x2, current_capacity) ==
    LET count == IF confidence = "low" THEN BASE_COUNT - COUNT_STEP
                                       ELSE BASE_COUNT + COUNT_STEP
        add_factors_x2 == 2 * num_furniture * FURNITURE
                          + indoor_vent_speed_x2 * NUM_FANS
                          + 2 * current_capacity * RESIDENTIAL_CFM
        cp_value_x2 == 2 * count + add_factors_x2
    IN  (cp_value_x2 * 100) \div 2

quant_confidence(confidence, num_furniture, indoor_vent_speed_x2, current_capacity) ==
    LET count == IF confidence = "low" THEN BASE_COUNT - COUNT_STEP
                                       ELSE BASE_COUNT + COUNT_STEP
        add_factors_x2 == 2 * num_furniture * FURNITURE
                          + indoor_vent_speed_x2 * NUM_FANS
                          + 2 * current_capacity * RESIDENTIAL_CFM
        cp_value_x2 == 2 * count + add_factors_x2
    IN  round2(sigmoid(cp_value_x2))

\* bin_cval = "high" if len(recent_data) >= 5 else "low"
bin_cval(w) == IF Len(w) >= HIGH_SAMPLES THEN "high" ELSE "low"

(***************************************************************************)
(* Airflow derivation and the result dict                                  *)
(***************************************************************************)
\* Variant: the rate is converted per minute instead of per hour.
ACH_per_minute(l) == l * 60

ACH_of(l) == l * SEC_PER_HOUR
airflow_m3h_of(ach, V) == ach * V
airflow_CFM_of(m3h) == m3h * CFM_PER_M3H_x1000

estimate(l, V, w) ==
    [kind |-> "dict",
     ACH |-> ACH_of(l),
     airflow_m3h |-> airflow_m3h_of(ACH_of(l), V),
     airflow_CFM |-> airflow_CFM_of(airflow_m3h_of(ACH_of(l), V)),
     confidence |-> quant_confidence(bin_cval(w), NUM_FURNITURE,
                                     INDOOR_VENT_SPEED_x2, PEOPLE)]

(***************************************************************************)
(* calculate_airflow, statement by statement.  A frame is the caller's     *)
(* position, the locals and the returned value.                            *)
(*   pc: "idle"                          no call made yet                  *)
(*       "L27" "L31" "L41" "L50" "L56"   about to execute that line        *)
(*       "ret29" "ret43" "ret93" "ret99" returned by that return statement *)
(*       "raised"                        an exception left the call        *)
(***************************************************************************)
InCall == {"L27", "L31", "L41", "L50", "L56"}
Returned == {"ret29", "ret43", "ret93", "ret99"}

Frame == [pc |-> pc, recent_data |-> recent_data, params |-> params,
          result |-> result]

\* Entering the call: fresh locals.
enter(f) == [f EXCEPT !.pc = "L27", !.recent_data = <<>>, !.params = <<>>]

\* Variant: the length test is inclusive (<= 2).
check_len_inclusive(f, log) ==
    IF Len(log) <= MIN_SAMPLES
    THEN [f EXCEPT !.pc = "ret29", !.result = None]
    ELSE [f EXCEPT !.pc = "L31"]

\* Variant: the length test is off by one (< 1).
check_len_off_by_one(f, log) ==
    IF Len(log) < MIN_SAMPLES - 1
    THEN [f EXCEPT !.pc = "ret29", !.result = None]
    ELSE [f EXCEPT !.pc = "L31"]

\* if len(self.CO_history) < 2: return None
check_len(f, log) ==
    IF Len(log) < MIN_SAMPLES
    THEN [f EXCEPT !.pc = "ret29", !.result = None]
    ELSE [f EXCEPT !.pc = "L31"]

\* Variant: the slice sees the list grown by an append whose element is not
\* stored yet.
take_window_mid_append(f, log) ==
    [f EXCEPT !.pc = "L41",
              !.recent_data = SliceLast(Append(log, <<0, 0>>), WINDOW)]

\* recent_data = self.CO_history[-10:]
take_window(f, log) ==
    [f EXCEPT !.pc = "L41", !.recent_data = SliceLast(log, WINDOW)]

\* Variant: the trend test is strict (<), so a flat window is fitted.
check_decay_strict(f) ==
    IF CO_vals(f.recent_data)[1] < CO_vals(f.recent_data)[Len(f.recent_data)]
    THEN [f EXCEPT !.pc = "ret43", !.result = None]
    ELSE [f EXCEPT !.pc = "L50"]

\* if CO_vals[0] <= CO_vals[-1]: return None
check_decay(f) ==
    IF NotDecaying(f.recent_data)
    THEN [f EXCEPT !.pc = "ret43", !.result = None]
    ELSE [f EXCEPT !.pc = "L50"]

\* Variant: the handler logs and re-raises.
except_reraise(f) == [f EXCEPT !.pc = "raised"]

\* except Exception as e: ... return None
except_Exception(f) == [f EXCEPT !.pc = "ret99", !.result = None]

\* try: params, covariance = curve_fit(...)
run_fit(f) ==
    {IF o.ok THEN [f EXCEPT !.pc = "L56", !.params = <<o.lambd>>]
             ELSE except_Exception(f) : o \in curve_fit(f.recent_data)}

\* ACH ... result = {...}; return result
derive(f, V) ==
    [f EXCEPT !.pc = "ret93",
              !.result = estimate(f.params[1], V, f.recent_data)]

\* One statement of the call.
CalcStep(f, log, V) ==
    CASE f.pc = "L27" -> {check_len(f, log)}
      [] f.pc = "L31" -> {take_window(f, log)}
      [] f.pc = "L41" -> {check_decay(f)}
      [] f.pc = "L50" -> run_fit(f)
      [] f.pc = "L56" -> {derive(f, V)}
      [] OTHER -> {}

\* The whole call on an unchanging log: every frame it can return with.
RECURSIVE Run(_, _, _)
Run(f, log, V) ==
    IF f.pc \notin InCall THEN {f}
    ELSE UNION {Run(g, log, V) : g \in CalcStep(f, log, V)}

SetFrame(f) ==
    /\ pc' = f.pc
    /\ recent_data' = f.recent_data
    /\ params' = f.params
    /\ result' = f.result

(***************************************************************************)
(* Operations                                                              *)
(***************************************************************************)
\* Variant: the pair is inserted at the front.
list_prepend(log, m) == <<m>> \o log

\* self.CO_history.append((timestamp, CO_ppm))
list_append(log, m) == Append(log, m)

add_measurement(m) ==
    /\ CO_history' = list_append(CO_history, m)
    /\ UNCHANGED <<room_volume, pc, recent_data, params, result>>

\* calculate_airflow() as one call, nothing running beside it.
calculate_airflow ==
    /\ pc \notin InCall
    /\ \E f \in Run(enter(Frame), CO_history, room_volume) : SetFrame(f)
    /\ UNCHANGED <<room_volume, CO_history>>

\* __init__(room_volume_m3)
Init ==
    /\ room_volume \in Volumes
    /\ CO_history = <<>>
    /\ pc = "idle"
    /\ recent_data = <<>>
    /\ params = <<>>
    /\ result = Unset

Record == \E m \in Measurements : Len(CO_history) < MaxLog /\ add_measurement(m)

Next == Record \/ calculate_airflow

Spec == Init /\ [][Next]_vars

(***************************************************************************)
(* SpecLong: the same operations on logs longer than the window.  Any log  *)
(* is the result of that many add_measurement calls; the preloaded ones    *)
(* are j copies of one measurement followed by SeedLen - j of another.     *)
(***************************************************************************)
SeedLogs ==
    {[i \in 1..SeedLen |-> IF i <= j THEN a ELSE b] :
        a \in Measurements, b \in Measurements, j \in 0..SeedLen}

InitLong ==
    /\ room_volume \in Volumes
    /\ CO_history \in SeedLogs
    /\ pc = "idle"
    /\ recent_data = <<>>
    /\ params = <<>>
    /\ result = Unset

RecordLong ==
    \E m \in Measurements : Len(CO_history) < MaxLongLog /\ add_measurement(m)

NextLong == RecordLong \/ calculate_airflow

SpecLong == InitLong /\ [][NextLong]_vars

(***************************************************************************)
(* SpecConc: a sensor-polling thread calls add_measurement while a         *)
(* reporting thread is inside calculate_airflow.  The source takes no      *)
(* lock; the interpreter runs list.append and the slice CO_history[-10:]   *)
(* each as one indivisible step, and threads switch between statements.    *)
(***************************************************************************)
Statement ==
    /\ \E f \in CalcStep(Frame, CO_history, room_volume) : SetFrame(f)
    /\ UNCHANGED <<room_volume, CO_history>>

call_calculate_airflow ==
    /\ pc \notin InCall
    /\ SetFrame(enter(Frame))
    /\ UNCHANGED <<room_volume, CO_history>>

at_L27 == pc = "L27" /\ Statement
at_L31 == pc = "L31" /\ Statement
at_L41 == pc = "L41" /\ Statement
at_L50 == pc = "L50" /\ Statement
at_L56 == pc = "L56" /\ Statement

RecordConc ==
    \E m \in Measurements : Len(CO_history) < MaxConcLog /\ add_measurement(m)

NextConc ==
    \/ RecordConc
    \/ call_calculate_airflow
    \/ at_L27
    \/ at_L31
    \/ at_L41
    \/ at_L50
    \/ at_L56

SpecConc == Init /\ [][NextConc]_vars

(***************************************************************************)
(* Claims                                                                  *)
(***************************************************************************)
NoResultExits == {"ret29", "ret43", "ret99"}

\* The latest min(L, 10) entries of a log, written out index by index.
LatestTen(log) ==
    LET L == Len(log)
        n == IF L < 10 THEN L ELSE 10
    IN  [i \in 1..n |-> log[L - n + i]]

\* C1: a call made while the log holds fewer than 2 entries returns None
\* through the insufficient-data return (line 29), with no window taken
\* and no fit run.
C1_InsufficientData ==
    [][(Len(CO_history) < 2 /\ calculate_airflow)
       => (/\ pc' = "ret29"
           /\ result' = None
           /\ recent_data' = <<>>
           /\ params' = <<>>)]_vars

C1_Witness ==
    /\ Len(CO_history) = 1
    /\ pc = "ret29"
    /\ result = None

\* C2: a call made on a log of at least 2 entries whose window has first
\* concentration <= last concentration returns None through the
\* not-decaying return (line 43); the fitter is not run and no estimate is
\* produced.
C2_NotDecaying ==
    [][(/\ Len(CO_history) >= 2
        /\ LatestTen(CO_history)[1][2]
             <= LatestTen(CO_history)[Len(LatestTen(CO_history))][2]
        /\ calculate_airflow)
       => (/\ pc' = "ret43"
           /\ result' = None
           /\ params' = <<>>)]_vars

\* two samples of equal concentration were judged
C2_Witness ==
    /\ Len(CO_history) = 2
    /\ CO_history[1][2] = CO_history[2][2]
    /\ recent_data = CO_history
    /\ pc = "ret43"
    /\ result = None

\* C3: the window of a call on a log of length L >= 2 is the last
\* min(L, 10) entries in insertion order, and the frames a call can return
\* with are those of a call on the last 10 entries alone.
C3_Window ==
    /\ [][(Len(CO_history) >= 2 /\ calculate_airflow)
            => (recent_data' = LatestTen(CO_history))]_vars
    /\ [](Run(enter(Frame), CO_history, room_volume)
            = Run(enter(Frame), LatestTen(CO_history), room_volume))

\* a call on an 11-entry log whose oldest entry differs from the rest
C3_Witness ==
    /\ Len(CO_history) = 11
    /\ CO_history[1] # CO_history[2]
    /\ pc \in Returned
    /\ Len(recent_data) = 10
    /\ recent_data = SubSeq(CO_history, 2, 11)

\* C4: a fitted rate lambda <= 0 never leads to an estimate, so every
\* estimate returned has ACH > 0 and, for a positive room volume,
\* airflow_m3h > 0 and airflow_CFM > 0.
C4_PositiveEstimate ==
    pc = "ret93"
        => /\ params[1] > 0
           /\ result.ACH > 0
           /\ (room_volume > 0
                 => result.airflow_m3h > 0 /\ result.airflow_CFM > 0)

\* C5: the value returned for a no-result tells the caller which of the
\* three causes occurred: whenever a call made now would return the same
\* value as the last call did, it would leave through the same return
\* statement.
C5_ReasonReachesCaller ==
    pc \in NoResultExits
        => \A f \in Run(enter(Frame), CO_history, room_volume) :
              f.result = result => f.pc = pc

\* C6: a call always completes with a returned value, an estimate or None:
\* it has at least one outcome, every outcome is one of the four return
\* statements, no exception leaves the call, and a failure of the fitter
\* returns None, never an estimate.
C6_NoExceptionEscapes ==
    /\ pc \in Returned \cup {"idle"}
    /\ (pc \in Returned => result = None \/ result.kind = "dict")
    /\ (pc = "ret99" => result = None)
    /\ (result.kind = "dict" => pc = "ret93")
    /\ Run(enter(Frame), CO_history, room_volume) # {}
    /\ \A f \in Run(enter(Frame), CO_history, room_volume) :
          /\ f.pc \in Returned
          /\ (f.pc = "ret93") = (f.result.kind = "dict")
          /\ (f.pc # "ret93") = (f.result = None)

\* the fitter failed on a decaying window and the call returned None
C6_Witness ==
    /\ pc = "ret99"
    /\ result = None
    /\ Len(recent_data) >= 2
    /\ ~NotDecaying(recent_data)
    /\ params = <<>>

\* C7: add_measurement is enabled for every pair, whatever the log holds,
\* and a step that changes the log appends one pair as the new last entry
\* and changes nothing else; a step of calculate_airflow changes neither the
\* log nor the room volume; the room volume never changes.
C7_Frame ==
    /\ [](\A m \in Measurements : ENABLED add_measurement(m))
    /\ [][/\ room_volume' = room_volume
          /\ (CO_history' # CO_history
                => /\ \E m \in Measurements :
                        CO_history' = Append(CO_history, m)
                   /\ SubSeq(CO_history', 1, Len(CO_history)) = CO_history
                   /\ UNCHANGED <<pc, recent_data, params, result>>)
          /\ (<<pc, recent_data, params, result>>'
                 # <<pc, recent_data, params, result>>
                => CO_history' = CO_history)]_vars

\* a pair with an older timestamp was appended after a newer one, and a
\* call that produced an estimate left the log as it was
C7_Witness ==
    /\ Len(CO_history) = 2
    /\ CO_history[1][1] > CO_history[2][1]
    /\ pc = "ret93"
    /\ recent_data = CO_history

C9_ConfidenceRange ==
    pc = "ret93"
        => /\ result.confidence >= 0
           /\ result.confidence <= 100

\* an estimate from a window of 5 samples (high bucket)
C9_Witness ==
    /\ pc = "ret93"
    /\ Len(recent_data) = 5
    /\ result.confidence = 100

\* C10: every estimate returned satisfies ACH = lambda * 3600,
\* airflow_m3h = ACH * V and airflow_CFM = airflow_m3h * 0.588 (588 per
\* 1000), with lambda the fitted rate and V the room volume.
C10_Derivation ==
    pc = "ret93"
        => /\ result.ACH = params[1] * 3600
           /\ result.airflow_m3h = result.ACH * room_volume
           /\ result.airflow_CFM = result.airflow_m3h * 588

\* lambda = 0.002 / s in the 48 m3 room: ACH 7.2, 345.6 m3/h, 203.2128 CFM
C10_Witness ==
    /\ pc = "ret93"
    /\ params = <<2>>
    /\ room_volume = 48
    /\ result.ACH = 7200
    /\ result.airflow_m3h = 345600
    /\ result.airflow_CFM = 203212800

\* C12: the log only grows, so once it holds two entries it holds at least
\* two ever after; from then on the length test of a call never takes the
\* insufficient-data return (line 29), every None returned by a call that
\* tested the length then comes from line 43 or line 99, and every window
\* handed to the trend check and the fitter has at least 2 entries.
C12_InsufficientDataOneWay ==
    /\ [][/\ Len(CO_history') >= Len(CO_history)
          /\ SubSeq(CO_history', 1, Len(CO_history)) = CO_history]_vars
    /\ [][(Len(CO_history) >= 2 /\ pc = "L27")
            => pc' \in {"L27", "L31"}]_vars
    /\ [][(Len(CO_history) >= 2 /\ pc \in InCall /\ pc' \in Returned)
            => /\ pc' \in {"ret43", "ret93", "ret99"}
               /\ (result' = None) = (pc' \in {"ret43", "ret99"})]_vars
    /\ [](pc \in {"L41", "L50", "L56", "ret43", "ret93", "ret99"}
            => Len(recent_data) >= 2)

\* a call that took its window from the 3-entry log returned None through
\* the not-decaying return
C12_Witness ==
    /\ Len(CO_history) = 3
    /\ pc = "ret43"
    /\ result = None
    /\ Len(recent_data) = 3

====
